---------------------------- MODULE Spec2Model ----------------------------
(***************************************************************************)
(* Model of src/main.py: a BLE GATT server whose connection callback       *)
(* starts an asyncio task (send_messages_periodically) that publishes a    *)
(* simulated robot position every 100 ms, and whose disconnection callback *)
(* cancels the task held in the single handle send_task.                   *)
(*                                                                         *)
(* Numbers.  The code computes in binary floating point.  The model        *)
(* computes with exact rationals [n, d] (d > 0).  Waypoints are drawn from *)
(* grids on which every segment length is an integer (axis-aligned or      *)
(* 3-4-5 segments), where math.sqrt is exact; the code's own waypoint list *)
(* is axis-aligned.                                                        *)
(***************************************************************************)
EXTENDS Integers, Sequences, FiniteSets, TLC

VARIABLES
    conn,             \* connection object -> "none" | "connected" | "disconnected"
    send_task,        \* main.py:82  the nonlocal task handle (None or a task)
    pc,               \* task -> position of the coroutine
    message_counter,  \* task -> main.py:132 local of send_messages_periodically
    cancel_requested, \* task -> Task.cancel() has been called on it
    cancelled_by,     \* task -> connections whose on_disconnection cancelled it (history)
    notified,         \* task -> the samples handed to device.notify_subscribers, in order
    published,        \* task -> number of notify_subscribers calls that returned
    notify_raised,    \* task -> a notify_subscribers call of it raised (history)
    tx_value,         \* tx_char.value
    tx_writers,       \* tasks that have assigned tx_char.value (history)
    waypoints,        \* the waypoint list given to interpolate_path
    progress,         \* the progress given to interpolate_path (pure-function runs)
    result,           \* what interpolate_path returned (pure-function runs)
    at_tick,          \* the tick a position is computed for (pure-function runs)
    rx,               \* what on_rx_write did: writes handled, last outcome
    rand_bytes,       \* main.py:34 the six bytes drawn by random.getrandbits(8)
    rand_addr         \* main.py:38 rand_addr, as a sequence of hex digit pairs

vars == <<conn, send_task, pc, message_counter, cancel_requested, cancelled_by,
          notified, published, notify_raised, tx_value, tx_writers, waypoints, progress, result,
          at_tick, rx, rand_bytes, rand_addr>>

(***************************************************************************)
(* Bounds                                                                  *)
(***************************************************************************)
MaxConns == 2
MaxTick == 3
MaxLen == 3
MaxDen == 4
LongRun == 402
MaxScenarioTick == 60
MaxWrites == 2
MaxPayload == 2

(***************************************************************************)
(* Program constants                                                       *)
(***************************************************************************)
CycleTicks == 200

None == 0
Conns == 1..MaxConns
\* on_connection creates exactly one task per connection event: task c is the
\* one created by the connection event of connection c.
Tasks == 1..MaxConns

(***************************************************************************)
(* Exact rational arithmetic standing for the code's float arithmetic      *)
(***************************************************************************)
RECURSIVE Gcd(_, _)
Gcd(a, b) == IF b = 0 THEN a ELSE Gcd(b, a % b)

Abs(k) == IF k < 0 THEN -k ELSE k

\* n / d in lowest terms (d > 0)
Rat(n, d) == LET g == Gcd(Abs(n), d) IN [n |-> n \div g, d |-> d \div g]
RInt(k) == Rat(k, 1)
REq(a, b) == a.n * b.d = b.n * a.d
RLe(a, b) == a.n * b.d <= b.n * a.d
RLt(a, b) == a.n * b.d < b.n * a.d
RSub(a, b) == Rat(a.n * b.d - b.n * a.d, a.d * b.d)
RAdd(a, b) == Rat(a.n * b.d + b.n * a.d, a.d * b.d)
RMulInt(a, k) == LET g == Gcd(Abs(k), a.d) IN Rat(a.n * (k \div g), a.d \div g)

RECURSIVE SqrtSearch(_, _, _)
SqrtSearch(n, lo, hi) ==
    IF lo >= hi THEN lo
    ELSE LET mid == (lo + hi + 1) \div 2
         IN IF mid * mid <= n THEN SqrtSearch(n, mid, hi)
            ELSE SqrtSearch(n, lo, mid - 1)

\* math.sqrt on a perfect square (the only arguments the model gives it);
\* 46340 is the largest root whose square a 32-bit integer holds
Sqrt(n) == SqrtSearch(n, 0, IF n < 46340 THEN n ELSE 46340)


(***************************************************************************)
(* interpolate_path (main.py:100-130).  Python indexes from 0, the model   *)
(* from 1: waypoints[i] of the code is w[i + 1] here.                      *)
(***************************************************************************)
\* main.py:87-97
CodeWaypoints ==
    << <<388, 388>>, <<388, 6500>>, <<1100, 6500>>, <<1100, 1400>>, <<1900, 1400>>,
       <<1900, 6500>>, <<2500, 6500>>, <<2500, 388>>, <<388, 388>> >>

distance(p1, p2) ==
    Sqrt((p2[1] - p1[1]) * (p2[1] - p1[1]) + (p2[2] - p1[2]) * (p2[2] - p1[2]))

RECURSIVE cumulative(_, _)
cumulative(w, i) ==
    IF i = 1 THEN 0 ELSE cumulative(w, i - 1) + distance(w[i - 1], w[i])

\* the list `distances` built by lines 106-110
Distances(w) == [i \in 1..Len(w) |-> cumulative(w, i)]

\* a / k where k is a distance difference; raised stands for ZeroDivisionError
Divide(a, k) ==
    [raised |-> (k = 0), v |-> IF k = 0 THEN a ELSE Rat(a.n, a.d * k)]

\* plausible slip: the chained comparison written with a strict lower bound
segment_matches_strict(ds, i, target) ==
    RLt(RInt(ds[i]), target) /\ RLe(target, RInt(ds[i + 1]))

\* plausible slip: the upper bound written strict, a half-open interval
segment_matches_half_open(ds, i, target) ==
    RLe(RInt(ds[i]), target) /\ RLt(target, RInt(ds[i + 1]))

\* line 117: distances[i] <= target_distance <= distances[i + 1]
segment_matches(ds, i, target) ==
    RLe(RInt(ds[i]), target) /\ RLe(target, RInt(ds[i + 1]))

\* plausible slip: the conditional expression of lines 118-123 without its guard
segment_progress_unguarded(target, d0, d1) ==
    Divide(RSub(target, RInt(d0)), d1 - d0)

\* plausible slip: the segment start is not subtracted from target_distance
segment_progress_from_origin(target, d0, d1) ==
    IF d1 # d0 THEN Divide(target, d1 - d0)
    ELSE [raised |-> FALSE, v |-> RInt(0)]

\* lines 118-123
segment_progress(target, d0, d1) ==
    IF d1 # d0 THEN Divide(RSub(target, RInt(d0)), d1 - d0)
    ELSE [raised |-> FALSE, v |-> RInt(0)]

\* The value of a call of interpolate_path: raised (an exception left it), the
\* point (x, y) returned, and, for the properties, the segment index i chosen
\* by the loop of line 116 (0: no segment matched, line 130 returned) and the
\* segment_progress used.
NoResult ==
    [called |-> FALSE, raised |-> FALSE, x |-> RInt(0), y |-> RInt(0),
     i |-> 0, frac |-> RInt(0)]

interpolate_path(w, prog) ==
    LET ds == Distances(w)
        total_distance == ds[Len(w)]
        target_distance == RMulInt(prog, total_distance)
        found == {i \in 1..(Len(w) - 1) : segment_matches(ds, i, target_distance)}
    IN  IF Len(w) = 0
        \* distances is [0.0], the loop body never runs, and waypoints[-1]
        \* of line 130 raises IndexError
        THEN [called |-> TRUE, raised |-> TRUE, x |-> RInt(0), y |-> RInt(0),
              i |-> 0, frac |-> RInt(0)]
        ELSE IF found = {}
        THEN [called |-> TRUE, raised |-> FALSE,
              x |-> RInt(w[Len(w)][1]), y |-> RInt(w[Len(w)][2]),
              i |-> 0, frac |-> RInt(0)]
        ELSE LET i == CHOOSE k \in found : \A j \in found : k <= j
                 sp == segment_progress(target_distance, ds[i], ds[i + 1])
                 p1 == w[i]
                 p2 == w[i + 1]
             IN  IF sp.raised
                 THEN [called |-> TRUE, raised |-> TRUE, x |-> RInt(0),
                       y |-> RInt(0), i |-> i, frac |-> RInt(0)]
                 ELSE [called |-> TRUE, raised |-> FALSE,
                       x |-> RAdd(RInt(p1[1]), RMulInt(sp.v, p2[1] - p1[1])),
                       y |-> RAdd(RInt(p1[2]), RMulInt(sp.v, p2[2] - p1[2])),
                       i |-> i, frac |-> sp.v]

\* plausible slip: the counter is not reduced modulo the cycle length
progress_of_unwrapped(tick) == Rat(tick, CycleTicks)

\* line 139: (message_counter % 200) / 200.0
progress_of(tick) == Rat(tick % CycleTicks, CycleTicks)

\* round(v, 2), as an integer number of hundredths (ties to even)
Round2(r) ==
    LET s == 100 * r.n
        q == s \div r.d
        rem == s % r.d
    IN  IF 2 * rem < r.d THEN q
        ELSE IF 2 * rem > r.d THEN q + 1
        ELSE IF q % 2 = 0 THEN q ELSE q + 1

\* interpolate_path on the code's waypoint list, tabulated by progress value.
\* The function is pure and line 140 calls it afresh on every tick with the
\* same list; the table holds what each such call returns, for every
\* progress n/200 a run of the model can ask for.
CodePath ==
    [pr \in {Rat(n, CycleTicks) : n \in 0..(LongRun + 1)} |->
        interpolate_path(CodeWaypoints, pr)]

\* line 144: the oscillation has a period of 40 ticks and an amplitude of 15
AnglePeriod == 40
Amplitude == 15

\* math.sin(2 * math.pi * k / 40) for k = 0..39, in units of 1/SinScale
\* (the nearest multiple of 1/SinScale to the value math.sin returns)
SinScale == 100000
SinTable ==
    <<0, 15643, 30902, 45399, 58779, 70711, 80902, 89101, 95106, 98769,
      100000, 98769, 95106, 89101, 80902, 70711, 58779, 45399, 30902, 15643,
      0, -15643, -30902, -45399, -58779, -70711, -80902, -89101, -95106, -98769,
      -100000, -98769, -95106, -89101, -80902, -70711, -58779, -45399, -30902,
      -15643>>

\* plausible slip: math.cos written for math.sin
angle_of_cos(tick) == Amplitude * SinTable[((tick + 10) % AnglePeriod) + 1]

\* line 144: 15 * math.sin(2 * math.pi * message_counter / 40), in units of
\* 1/SinScale degrees
angle_of(tick) == Amplitude * SinTable[(tick % AnglePeriod) + 1]

\* lines 139-153: the message built for a tick (x, y, angle in hundredths)
Sample(tick) ==
    LET r == CodePath[progress_of(tick)]
    IN  [type |-> "robot_pos", x |-> Round2(r.x), y |-> Round2(r.y),
         angle |-> Round2(Rat(angle_of(tick), SinScale))]

\* line 64: value=b"Hello from Bumble!"
InitialTxValue == [type |-> "hello", x |-> 0, y |-> 0, angle |-> 0]

(***************************************************************************)
(* make_static_random_address (main.py:33-36)                              *)
(***************************************************************************)
RECURSIVE BitAnd(_, _, _)
\* a & b on the low n bits
BitAnd(a, b, n) ==
    IF n = 0 THEN 0
    ELSE (a % 2) * (b % 2) + 2 * BitAnd(a \div 2, b \div 2, n - 1)

RECURSIVE BitOr(_, _, _)
\* a | b on the low n bits
BitOr(a, b, n) ==
    IF n = 0 THEN 0
    ELSE (IF a % 2 = 1 \/ b % 2 = 1 THEN 1 ELSE 0)
            + 2 * BitOr(a \div 2, b \div 2, n - 1)

HexDigits ==
    <<"0", "1", "2", "3", "4", "5", "6", "7", "8", "9", "A", "B", "C", "D", "E", "F">>

\* f"{b:02X}": the two upper-case hex digits of a byte
Hex02X(b) == <<HexDigits[(b \div 16) + 1], HexDigits[(b % 16) + 1]>>

\* plausible slip: 0x80 written for 0xC0, only the top bit is forced
first_byte_top_bit_only(b) == BitOr(BitAnd(b, 63, 8), 128, 8)

\* line 35: (bytes_[0] & 0x3F) | 0xC0
first_byte(b) == BitOr(BitAnd(b, 63, 8), 192, 8)

\* lines 34-36, given the six bytes drawn; the ":"-joined string is the
\* sequence of its six digit pairs
make_static_random_address(drawn) ==
    LET bytes_ == [drawn EXCEPT ![1] = first_byte(@)]
    IN  [i \in 1..Len(bytes_) |-> Hex02X(bytes_[i])]

\* the value of a hex digit, and of the i-th byte an address spells
HexValue(ch) == (CHOOSE k \in 1..16 : HexDigits[k] = ch) - 1
AddressByte(addr, i) == 16 * HexValue(addr[i][1]) + HexValue(addr[i][2])

(***************************************************************************)
(* on_rx_write (main.py:50-55)                                             *)
(***************************************************************************)
RECURSIVE continuation_bytes(_, _, _)
\* the k bytes of v from position i on are UTF-8 continuation bytes
continuation_bytes(v, i, k) ==
    IF k = 0 THEN TRUE
    ELSE /\ i <= Len(v)
         /\ v[i] >= 128 /\ v[i] <= 191
         /\ continuation_bytes(v, i + 1, k - 1)

RECURSIVE utf8_valid(_, _)
\* bytes.decode("utf-8") succeeds on v from position i on (strict decoding:
\* no overlong forms, no surrogates, nothing above U+10FFFF)
utf8_valid(v, i) ==
    IF i > Len(v) THEN TRUE
    ELSE LET b == v[i]
             second == IF i + 1 <= Len(v) THEN v[i + 1] ELSE 0
         IN  IF b < 128 THEN utf8_valid(v, i + 1)
             ELSE IF b >= 194 /\ b <= 223
             THEN continuation_bytes(v, i + 1, 1) /\ utf8_valid(v, i + 2)
             ELSE IF b >= 224 /\ b <= 239
             THEN /\ continuation_bytes(v, i + 1, 2)
                  /\ (b = 224 => second >= 160)
                  /\ (b = 237 => second <= 159)
                  /\ utf8_valid(v, i + 3)
             ELSE IF b >= 240 /\ b <= 244
             THEN /\ continuation_bytes(v, i + 1, 3)
                  /\ (b = 240 => second >= 144)
                  /\ (b = 244 => second <= 143)
                  /\ utf8_valid(v, i + 4)
             ELSE FALSE

\* plausible slip: no except clause, so a failed decode leaves the handler
on_rx_write_no_except(value) ==
    IF utf8_valid(value, 1)
    THEN [raised |-> FALSE, printed |-> "text"]
    ELSE [raised |-> TRUE, printed |-> "none"]

\* lines 50-55: what the handler prints and whether an exception leaves it.
\* The bare except of line 54 catches the UnicodeDecodeError of line 52;
\* value.hex() of line 55 is defined for every bytes value.
on_rx_write(value) ==
    IF utf8_valid(value, 1)
    THEN [raised |-> FALSE, printed |-> "text"]
    ELSE [raised |-> FALSE, printed |-> "binary"]

NoRx == [count |-> 0, raised |-> FALSE, printed |-> "none"]

\* the draw the server runs are started from
ZeroBytes == <<0, 0, 0, 0, 0, 0>>

(***************************************************************************)
(* The server: callbacks run by the event loop, and the generator tasks.   *)
(* asyncio runs one callback or one task step at a time, each to its next  *)
(* suspension, so every action below is one such uninterrupted run.        *)
(* pc of a task: "none" (not created), "ready" (created by create_task,    *)
(* not yet run), "notify" (suspended in await device.notify_subscribers),  *)
(* "sleep" (suspended in await asyncio.sleep), "cancelled" (ended by       *)
(* CancelledError), "failed" (ended by an exception of notify_subscribers).*)
(***************************************************************************)
Init ==
    /\ conn = [c \in Conns |-> "none"]
    /\ send_task = None
    /\ pc = [t \in Tasks |-> "none"]
    /\ message_counter = [t \in Tasks |-> 0]
    /\ cancel_requested = [t \in Tasks |-> FALSE]
    /\ cancelled_by = [t \in Tasks |-> {}]
    /\ notified = [t \in Tasks |-> << >>]
    /\ published = [t \in Tasks |-> 0]
    /\ notify_raised = [t \in Tasks |-> FALSE]
    /\ tx_value = InitialTxValue
    /\ tx_writers = {}
    /\ waypoints = CodeWaypoints
    /\ progress = RInt(0)
    /\ result = NoResult
    /\ at_tick = 0
    /\ rx = NoRx
    /\ rand_bytes = ZeroBytes
    /\ rand_addr = make_static_random_address(ZeroBytes)

path_vars == <<waypoints, progress, result>>
side_vars == <<at_tick, rx, rand_bytes, rand_addr>>
task_vars == <<pc, message_counter, notified, published, notify_raised, tx_value,
               tx_writers>>

\* Task.done()
task_done(t) == pc[t] \in {"cancelled", "failed"}

\* on_connection (lines 162-169); connection objects are handed out in order
Connection(c) ==
    /\ conn[c] = "none"
    /\ \A b \in Conns : b < c => conn[b] # "none"
    /\ conn' = [conn EXCEPT ![c] = "connected"]
    /\ pc' = [pc EXCEPT ![c] = "ready"]
    /\ send_task' = c
    /\ UNCHANGED <<message_counter, cancel_requested, cancelled_by, notified,
                   published, notify_raised, tx_value, tx_writers, path_vars, side_vars>>

\* plausible slip: line 178 (send_task = None) is missing
on_disconnection_keeping_handle(s, c) ==
    LET t == s.send_task
        cancels == (t # None) /\ ~task_done(t)
    IN  [send_task |-> t,
         cancel_requested |->
            IF cancels THEN [s.cancel_requested EXCEPT ![t] = TRUE]
            ELSE s.cancel_requested,
         cancelled_by |->
            IF cancels THEN [s.cancelled_by EXCEPT ![t] = @ \cup {c}]
            ELSE s.cancelled_by,
         cancel_calls |-> s.cancel_calls + (IF cancels THEN 1 ELSE 0)]

\* on_disconnection (lines 171-178) as a function of the handle and the
\* cancellation requests: s = [send_task, cancel_requested, cancelled_by,
\* cancel_calls], cancel_calls counting the calls of Task.cancel() (line 176)
on_disconnection(s, c) ==
    LET t == s.send_task
        cancels == (t # None) /\ ~task_done(t)
    IN  [send_task |-> None,
         cancel_requested |->
            IF cancels THEN [s.cancel_requested EXCEPT ![t] = TRUE]
            ELSE s.cancel_requested,
         cancelled_by |->
            IF cancels THEN [s.cancelled_by EXCEPT ![t] = @ \cup {c}]
            ELSE s.cancelled_by,
         cancel_calls |-> s.cancel_calls + (IF cancels THEN 1 ELSE 0)]

\* A disconnection of c.  on_disconnection is registered on the device (line
\* 182) and on the connection (line 167), so the library runs it once or
\* twice, back to back, for one disconnection.
Disconnection(c) ==
    /\ conn[c] = "connected"
    /\ \E n \in 1..2 :
         LET s0 == [send_task |-> send_task, cancel_requested |-> cancel_requested,
                    cancelled_by |-> cancelled_by, cancel_calls |-> 0]
             s1 == on_disconnection(s0, c)
             s2 == IF n = 2 THEN on_disconnection(s1, c) ELSE s1
         IN  /\ send_task' = s2.send_task
             /\ cancel_requested' = s2.cancel_requested
             /\ cancelled_by' = s2.cancelled_by
    /\ conn' = [conn EXCEPT ![c] = "disconnected"]
    /\ UNCHANGED <<task_vars, path_vars, side_vars>>

\* The outcomes of `await device.notify_subscribers(tx_char)`: the library
\* call returns without suspending, suspends the task, or raises.
NotifyOutcomes == {"returned", "suspended", "raised"}

\* plausible slip: the counter advances by two per iteration
NextTickSkipping(mc) == mc + 2

\* line 135
NextTick(mc) == mc + 1

\* plausible slip: the task yields (`await asyncio.sleep(0)`) after line 154,
\* before the sample is handed to notify_subscribers
IterateYieldingAfterWrite(t, mc) ==
    LET tick == NextTick(mc)
        message == Sample(tick)
    IN  /\ message_counter' = [message_counter EXCEPT ![t] = tick]
        /\ tx_value' = message
        /\ tx_writers' = tx_writers \cup {t}
        /\ pc' = [pc EXCEPT ![t] = "sleep"]
        /\ UNCHANGED <<notified, published, notify_raised>>

\* One loop iteration from line 135 to the next suspension: lines 135-155,
\* then, when notify_subscribers returned, lines 156-157.
Iterate(t, mc) ==
    LET tick == NextTick(mc)
        message == Sample(tick)
    IN  /\ message_counter' = [message_counter EXCEPT ![t] = tick]
        /\ tx_value' = message
        /\ tx_writers' = tx_writers \cup {t}
        /\ notified' = [notified EXCEPT ![t] = Append(@, [tick |-> tick, message |-> message])]
        /\ \E outcome \in NotifyOutcomes :
             /\ pc' = [pc EXCEPT ![t] =
                          CASE outcome = "returned" -> "sleep"
                            [] outcome = "suspended" -> "notify"
                            [] outcome = "raised" -> "failed"]
             /\ published' = [published EXCEPT ![t] =
                                 IF outcome = "returned" THEN @ + 1 ELSE @]
             /\ notify_raised' = [notify_raised EXCEPT ![t] = (outcome = "raised")]

\* First run of the task: line 132 (message_counter = 0), then an iteration.
TaskStart(t) ==
    /\ pc[t] = "ready"
    /\ ~cancel_requested[t]
    /\ Iterate(t, 0)
    /\ UNCHANGED <<conn, send_task, cancel_requested, cancelled_by, path_vars, side_vars>>

\* plausible slip: the wake-up does not deliver a pending cancellation
TimerWakeUncancellable(t, cap) ==
    /\ pc[t] = "sleep"
    /\ message_counter[t] < cap
    /\ Iterate(t, message_counter[t])
    /\ UNCHANGED <<conn, send_task, cancel_requested, cancelled_by, path_vars, side_vars>>

\* plausible slip: the loop is `while message_counter < 2` and returns
TimerWakeFinite(t, cap) ==
    /\ pc[t] = "sleep"
    /\ ~cancel_requested[t]
    /\ message_counter[t] < cap
    /\ IF message_counter[t] < 2
       THEN Iterate(t, message_counter[t])
       ELSE /\ pc' = [pc EXCEPT ![t] = "returned"]
            /\ UNCHANGED <<message_counter, notified, published, notify_raised,
                           tx_value, tx_writers>>
    /\ UNCHANGED <<conn, send_task, cancel_requested, cancelled_by, path_vars, side_vars>>

\* asyncio.sleep(0.1) is over (line 157) and no cancellation is pending: the
\* loop goes round (line 134).  cap bounds the counter in the model.
TimerWakeUpTo(t, cap) ==
    /\ pc[t] = "sleep"
    /\ ~cancel_requested[t]
    /\ message_counter[t] < cap
    /\ Iterate(t, message_counter[t])
    /\ UNCHANGED <<conn, send_task, cancel_requested, cancelled_by, path_vars, side_vars>>

TimerWake(t) == TimerWakeUpTo(t, MaxTick)

\* plausible slip: a failed notify is caught (`except Exception`) and the
\* loop carries on
NotifyResumeSwallowing(t) ==
    /\ pc[t] = "notify"
    /\ ~cancel_requested[t]
    /\ \E ok \in BOOLEAN :
         /\ pc' = [pc EXCEPT ![t] = "sleep"]
         /\ published' = [published EXCEPT ![t] = IF ok THEN @ + 1 ELSE @]
         /\ notify_raised' = [notify_raised EXCEPT ![t] = ~ok]
    /\ UNCHANGED <<conn, send_task, message_counter, cancel_requested, cancelled_by,
                   notified, tx_value, tx_writers, path_vars, side_vars>>

\* The suspended notify_subscribers call completes with no cancellation
\* pending: it returns (lines 156-157 run) or raises (the exception is not a
\* CancelledError, no handler of lines 158-160 matches, the task ends).
NotifyResume(t) ==
    /\ pc[t] = "notify"
    /\ ~cancel_requested[t]
    /\ \E ok \in BOOLEAN :
         /\ pc' = [pc EXCEPT ![t] = IF ok THEN "sleep" ELSE "failed"]
         /\ published' = [published EXCEPT ![t] = IF ok THEN @ + 1 ELSE @]
         /\ notify_raised' = [notify_raised EXCEPT ![t] = ~ok]
    /\ UNCHANGED <<conn, send_task, message_counter, cancel_requested, cancelled_by,
                   notified, tx_value, tx_writers, path_vars, side_vars>>

\* The next step of a task on which cancel() was called: CancelledError is
\* thrown at its suspension point (or before its first line); lines 158-160
\* print and re-raise.
Cancelled(t) ==
    /\ pc[t] \in {"ready", "notify", "sleep"}
    /\ cancel_requested[t]
    /\ pc' = [pc EXCEPT ![t] = "cancelled"]
    /\ UNCHANGED <<conn, send_task, message_counter, cancel_requested, cancelled_by,
                   notified, published, notify_raised, tx_value, tx_writers, path_vars, side_vars>>

TaskStep(t) == TaskStart(t) \/ TimerWake(t) \/ NotifyResume(t) \/ Cancelled(t)

Next ==
    \/ \E c \in Conns : Connection(c)
    \/ \E c \in Conns : Disconnection(c)
    \/ \E t \in Tasks : TaskStart(t)
    \/ \E t \in Tasks : TimerWake(t)
    \/ \E t \in Tasks : NotifyResume(t)
    \/ \E t \in Tasks : Cancelled(t)

Spec == Init /\ [][Next]_vars

\* The event loop runs every task that is ready to run, the timer of
\* asyncio.sleep fires, and the publish sink answers.
FairSpec == Spec /\ \A t \in Tasks : WF_vars(TaskStep(t))

(***************************************************************************)
(* One generator left to run for more than two position cycles: a single   *)
(* connection that never disconnects.                                      *)
(***************************************************************************)
GenNext ==
    \/ \E c \in {1} : Connection(c)
    \/ \E t \in {1} : TaskStart(t)
    \/ \E t \in {1} : TimerWakeUpTo(t, LongRun)
    \/ \E t \in {1} : NotifyResume(t)

GenSpec == Init /\ [][GenNext]_vars

(***************************************************************************)
(* interpolate_path as a pure function: called once on a waypoint list and *)
(* a progress drawn from bounded sets.                                     *)
(***************************************************************************)
\* every two of these points are an integer distance apart (0, 3, 4 or 5)
Points == {<<0, 0>>, <<3, 0>>, <<0, 4>>, <<3, 4>>}

WaypointLists == UNION {[1..len -> Points] : len \in 2..MaxLen}

\* the fractions n/d of [0, 1] with d <= MaxDen
ProgressValues == {Rat(n, d) : n \in 0..MaxDen, d \in 1..MaxDen}

PathInit ==
    /\ conn = [c \in Conns |-> "none"]
    /\ send_task = None
    /\ pc = [t \in Tasks |-> "none"]
    /\ message_counter = [t \in Tasks |-> 0]
    /\ cancel_requested = [t \in Tasks |-> FALSE]
    /\ cancelled_by = [t \in Tasks |-> {}]
    /\ notified = [t \in Tasks |-> << >>]
    /\ published = [t \in Tasks |-> 0]
    /\ notify_raised = [t \in Tasks |-> FALSE]
    /\ tx_value = InitialTxValue
    /\ tx_writers = {}
    /\ waypoints \in WaypointLists
    /\ progress \in {r \in ProgressValues : RLe(r, RInt(1))}
    /\ result = NoResult
    /\ at_tick = 0
    /\ rx = NoRx
    /\ rand_bytes = ZeroBytes
    /\ rand_addr = make_static_random_address(ZeroBytes)

Interpolate ==
    /\ ~result.called
    /\ result' = interpolate_path(waypoints, progress)
    /\ UNCHANGED <<conn, send_task, cancel_requested, cancelled_by, task_vars,
                   waypoints, progress, side_vars>>

PathNext == Interpolate

PathSpec == PathInit /\ [][PathNext]_vars

(***************************************************************************)
(* The position computed for a tick, for a waypoint list and a position    *)
(* cycle other than the ones the code fixes: lines 139-140 with the list   *)
(* and the cycle length as parameters.                                     *)
(***************************************************************************)
\* waypoints = [(0,0),(10,0),(10,10)], position cycle 4
Scenario == [waypoints |-> << <<0, 0>>, <<10, 0>>, <<10, 10>> >>, cycle |-> 4]

\* plausible slip: the counter is not reduced modulo the cycle length
progress_at_unwrapped(k, cycle) == Rat(k, cycle)

\* line 139 with the cycle length as a parameter: (k % cycle) / cycle
progress_at(k, cycle) == Rat(k % cycle, cycle)

ScenarioInit ==
    /\ conn = [c \in Conns |-> "none"]
    /\ send_task = None
    /\ pc = [t \in Tasks |-> "none"]
    /\ message_counter = [t \in Tasks |-> 0]
    /\ cancel_requested = [t \in Tasks |-> FALSE]
    /\ cancelled_by = [t \in Tasks |-> {}]
    /\ notified = [t \in Tasks |-> << >>]
    /\ published = [t \in Tasks |-> 0]
    /\ notify_raised = [t \in Tasks |-> FALSE]
    /\ tx_value = InitialTxValue
    /\ tx_writers = {}
    /\ waypoints = Scenario.waypoints
    /\ progress = RInt(0)
    /\ result = NoResult
    /\ at_tick \in 0..MaxScenarioTick
    /\ rx = NoRx
    /\ rand_bytes = ZeroBytes
    /\ rand_addr = make_static_random_address(ZeroBytes)

\* lines 139-140 for the tick at_tick
PositionAtTick ==
    /\ ~result.called
    /\ progress' = progress_at(at_tick, Scenario.cycle)
    /\ result' = interpolate_path(waypoints, progress')
    /\ UNCHANGED <<conn, send_task, cancel_requested, cancelled_by, task_vars,
                   waypoints, at_tick, rx, rand_bytes, rand_addr>>

ScenarioNext == PositionAtTick

ScenarioSpec == ScenarioInit /\ [][ScenarioNext]_vars

(***************************************************************************)
(* The server with inbound writes on the RX characteristic (lines 66-71):  *)
(* the library calls on_rx_write with the bytes written, at any time.      *)
(***************************************************************************)
\* an ASCII letter, the two bytes of U+00E9, and a byte no UTF-8 text holds
PayloadBytes == {65, 195, 169, 255}

RxPayloads == UNION {[1..len -> PayloadBytes] : len \in 0..MaxPayload}

\* one write on the RX characteristic: lines 50-55 run to their end
RxWrite(value) ==
    /\ rx.count < MaxWrites
    /\ LET out == on_rx_write(value)
       IN  rx' = [count |-> rx.count + 1, raised |-> out.raised,
                  printed |-> out.printed]
    /\ UNCHANGED <<conn, send_task, cancel_requested, cancelled_by, task_vars,
                   path_vars, at_tick, rand_bytes, rand_addr>>

RxNext ==
    \/ Next
    \/ \E value \in RxPayloads : RxWrite(value)

RxSpec == Init /\ [][RxNext]_vars

(***************************************************************************)
(* The generator over a waypoint list of any length.  The code builds the  *)
(* list at lines 87-97 and checks nothing about it before the loop of line *)
(* 134 starts; interpolate_path takes the list as its parameter.           *)
(***************************************************************************)
AnyWaypointLists == UNION {[1..len -> Points] : len \in 0..MaxLen}

CfgInit ==
    /\ conn = [c \in Conns |-> "none"]
    /\ send_task = None
    /\ pc = [t \in Tasks |-> "none"]
    /\ message_counter = [t \in Tasks |-> 0]
    /\ cancel_requested = [t \in Tasks |-> FALSE]
    /\ cancelled_by = [t \in Tasks |-> {}]
    /\ notified = [t \in Tasks |-> << >>]
    /\ published = [t \in Tasks |-> 0]
    /\ notify_raised = [t \in Tasks |-> FALSE]
    /\ tx_value = InitialTxValue
    /\ tx_writers = {}
    /\ waypoints \in AnyWaypointLists
    /\ progress = RInt(0)
    /\ result = NoResult
    /\ at_tick = 0
    /\ rx = NoRx
    /\ rand_bytes = ZeroBytes
    /\ rand_addr = make_static_random_address(ZeroBytes)

\* One loop iteration (lines 135-155) on the waypoint list w.  An exception
\* of line 140 is no CancelledError: lines 158-160 do not catch it and the
\* task ends with it, before line 154.
IterateOn(t, mc, w) ==
    LET tick == NextTick(mc)
        r == interpolate_path(w, progress_of(tick))
        message == [type |-> "robot_pos", x |-> Round2(r.x), y |-> Round2(r.y),
                    angle |-> Round2(Rat(angle_of(tick), SinScale))]
    IN  /\ message_counter' = [message_counter EXCEPT ![t] = tick]
        /\ progress' = progress_of(tick)
        /\ result' = r
        /\ IF r.raised
           THEN /\ pc' = [pc EXCEPT ![t] = "failed"]
                /\ UNCHANGED <<tx_value, tx_writers, notified, published, notify_raised>>
           ELSE /\ tx_value' = message
                /\ tx_writers' = tx_writers \cup {t}
                /\ notified' = [notified EXCEPT ![t] =
                                   Append(@, [tick |-> tick, message |-> message])]
                /\ \E outcome \in NotifyOutcomes :
                     /\ pc' = [pc EXCEPT ![t] =
                                  CASE outcome = "returned" -> "sleep"
                                    [] outcome = "suspended" -> "notify"
                                    [] outcome = "raised" -> "failed"]
                     /\ published' = [published EXCEPT ![t] =
                                         IF outcome = "returned" THEN @ + 1 ELSE @]
                     /\ notify_raised' = [notify_raised EXCEPT ![t] = (outcome = "raised")]

CfgTaskStart(t) ==
    /\ pc[t] = "ready"
    /\ ~cancel_requested[t]
    /\ IterateOn(t, 0, waypoints)
    /\ UNCHANGED <<conn, send_task, cancel_requested, cancelled_by, waypoints, side_vars>>

CfgTimerWake(t) ==
    /\ pc[t] = "sleep"
    /\ ~cancel_requested[t]
    /\ message_counter[t] < MaxTick
    /\ IterateOn(t, message_counter[t], waypoints)
    /\ UNCHANGED <<conn, send_task, cancel_requested, cancelled_by, waypoints, side_vars>>

CfgNext ==
    \/ \E c \in {1} : Connection(c)
    \/ \E t \in {1} : CfgTaskStart(t)
    \/ \E t \in {1} : CfgTimerWake(t)
    \/ \E t \in {1} : NotifyResume(t)

CfgSpec == CfgInit /\ [][CfgNext]_vars

(***************************************************************************)
(* make_static_random_address as a pure function of the six bytes that     *)
(* os.urandom(6) returns (line 34).                                        *)
(***************************************************************************)
\* the first byte takes every value; the other five take the extremes and
\* two values with mixed bits
OtherBytes == {0, 90, 165, 255}

RandomDraws ==
    {<<b1, b2, b3, b4, b5, b6>> :
        b1 \in 0..255, b2 \in OtherBytes, b3 \in {0, 255}, b4 \in {90},
        b5 \in {165}, b6 \in {0, 255}}

AddrInit ==
    /\ conn = [c \in Conns |-> "none"]
    /\ send_task = None
    /\ pc = [t \in Tasks |-> "none"]
    /\ message_counter = [t \in Tasks |-> 0]
    /\ cancel_requested = [t \in Tasks |-> FALSE]
    /\ cancelled_by = [t \in Tasks |-> {}]
    /\ notified = [t \in Tasks |-> << >>]
    /\ published = [t \in Tasks |-> 0]
    /\ notify_raised = [t \in Tasks |-> FALSE]
    /\ tx_value = InitialTxValue
    /\ tx_writers = {}
    /\ waypoints = CodeWaypoints
    /\ progress = RInt(0)
    /\ result = NoResult
    /\ at_tick = 0
    /\ rx = NoRx
    /\ rand_bytes \in RandomDraws
    /\ rand_addr = << >>

\* lines 35-36 on the bytes drawn
MakeAddress ==
    /\ rand_addr = << >>
    /\ rand_addr' = make_static_random_address(rand_bytes)
    /\ UNCHANGED <<conn, send_task, cancel_requested, cancelled_by, task_vars,
                   path_vars, at_tick, rx, rand_bytes>>

AddrNext == MakeAddress

AddrSpec == AddrInit /\ [][AddrNext]_vars

(***************************************************************************)
(* Properties                                                              *)
(***************************************************************************)
Live(t) == pc[t] \in {"ready", "notify", "sleep"}

\* C1: once cancel() has been called on a generator task, that task makes no
\* further notify_subscribers call and starts no further tick: every later
\* step leaves its calls, its publishes and its counter as they were, and the
\* only step the task itself takes is the one that ends it.
C1_NoPublishAfterCancel ==
    [][\A t \in Tasks :
          cancel_requested[t] =>
             /\ notified'[t] = notified[t]
             /\ published'[t] = published[t]
             /\ message_counter'[t] = message_counter[t]
             /\ pc'[t] \in {pc[t], "cancelled"}]_vars

\* C1 witness: a generator that had published was cancelled while suspended
\* and has ended.
C1_Witness ==
    \E t \in Tasks :
        cancel_requested[t] /\ pc[t] = "cancelled" /\ published[t] >= 1

\* C2: the disconnection of connection c cancels the generator that c's
\* connection event started, and no generator of another connection; hence
\* once every connection has disconnected no generator is still running.
\* (Task t is the one started by connection t.)
C2_DisconnectCancelsOwnGenerator ==
    /\ \A t \in Tasks : cancelled_by[t] \subseteq {t}
    /\ \A c \in Conns :
          conn[c] = "disconnected" => (cancel_requested[c] \/ task_done(c))
    /\ (\A c \in Conns : conn[c] # "connected") =>
          \A t \in Tasks : Live(t) => cancel_requested[t]

\* C3: generators of concurrently active connections share no mutable state:
\* no variable (here tx_char.value) is written by two generators that are
\* running at the same time for two connected subscribers.
C3_NoSharedMutableState ==
    \A t1, t2 \in Tasks :
        (/\ t1 # t2
         /\ conn[t1] = "connected" /\ conn[t2] = "connected"
         /\ pc[t1] \in {"notify", "sleep"} /\ pc[t2] \in {"notify", "sleep"})
            => ~({t1, t2} \subseteq tx_writers)

\* C4: when a notify_subscribers call of a generator raises, the run loop
\* ends with that failure: the task is over, the failed tick's sample was
\* handed to notify exactly once (no retry), and the task makes no further
\* call.
C4_PublishFailureEndsLoop ==
    [][\A t \in Tasks :
          /\ notify_raised'[t] =>
                /\ pc'[t] = "failed"
                /\ Len(notified'[t]) = message_counter'[t]
                /\ published'[t] = message_counter'[t] - 1
          /\ notify_raised[t] =>
                /\ notified'[t] = notified[t]
                /\ message_counter'[t] = message_counter[t]
                /\ published'[t] = published[t]]_vars

\* C4 witness: a generator that ended because a publish call raised at its
\* second tick or later.
C4_Witness ==
    \E t \in Tasks :
        notify_raised[t] /\ pc[t] = "failed" /\ message_counter[t] >= 2

\* C5: the run loop never ends of itself: for a generator that is not
\* cancelled, every tick whose publish returned is eventually followed by
\* the publish call of the next tick (ticks below the model's cap MaxTick).
\* AwaitingNextTick(t): the last tick of t was published, the next one has
\* not been handed to publish, and t is not cancelled; the property says t
\* never stays there for ever.
AwaitingNextTick(t) ==
    /\ published[t] >= 1
    /\ published[t] < MaxTick
    /\ Len(notified[t]) = published[t]
    /\ ~cancel_requested[t]

C5_LoopNeverEndsNaturally ==
    \A t \in Tasks : []<>(~AwaitingNextTick(t))

\* C5 witness: an uncancelled generator that has published two ticks and
\* called publish for a third.
C5_Witness ==
    \E t \in Tasks :
        ~cancel_requested[t] /\ published[t] >= 2 /\ Len(notified[t]) >= 3

\* C6: within one generator the ticks of the samples handed to publish are
\* 1, 2, 3, ... with none skipped or repeated, the counter is the number of
\* iterations made, and a generator starts from 0 whatever earlier
\* generators did.
C6_TicksConsecutive ==
    \A t \in Tasks :
        /\ \A i \in 1..Len(notified[t]) : notified[t][i].tick = i
        /\ message_counter[t] = Len(notified[t])
        /\ pc[t] \in {"none", "ready"} => message_counter[t] = 0

\* C6 witness: a generator created after another one had already counted to
\* 2 has itself published ticks 1 and 2.
C6_Witness ==
    \E t1, t2 \in Tasks :
        t1 < t2 /\ Len(notified[t1]) >= 2 /\ Len(notified[t2]) >= 2

\* C7: progress is periodic with period P = 200, and the position published
\* at tick + P is the position published at tick.
C7_ProgressPeriodic ==
    \A t \in Tasks :
        LET n == Len(notified[t])
        IN  n > CycleTicks =>
               /\ notified[t][n].message = notified[t][n - CycleTicks].message
               /\ progress_of(notified[t][n].tick) =
                     progress_of(notified[t][n - CycleTicks].tick)

\* C7 witness: a generator in its third cycle, at a tick where the position
\* differs from that of the tick before.
C7_Witness ==
    \E t \in Tasks :
        LET n == Len(notified[t])
        IN  /\ n > 2 * CycleTicks
            /\ notified[t][n].message # notified[t][n - 1].message

PointIs(r, p) == REq(r.x, RInt(p[1])) /\ REq(r.y, RInt(p[2]))

\* C8: interpolate_path(waypoints, 0) is waypoints[0] and
\* interpolate_path(waypoints, 1) is waypoints[-1].
C8_Endpoints ==
    result.called =>
        /\ ~result.raised
        /\ REq(progress, RInt(0)) => PointIs(result, waypoints[1])
        /\ REq(progress, RInt(1)) => PointIs(result, waypoints[Len(waypoints)])

\* C8 witness: progress 1 on a path whose last segment has length zero and
\* whose ends differ.
C8_Witness ==
    /\ result.called
    /\ REq(progress, RInt(1))
    /\ Len(waypoints) >= 3
    /\ waypoints[Len(waypoints) - 1] = waypoints[Len(waypoints)]
    /\ waypoints[1] # waypoints[Len(waypoints)]

\* the point (x, y) lies on the closed segment from a to b
OnSegment(x, y, a, b) ==
    /\ (x.n - a[1] * x.d) * (b[2] - a[2]) * y.d
          = (y.n - a[2] * y.d) * (b[1] - a[1]) * x.d
    /\ (IF a[1] <= b[1] THEN a[1] ELSE b[1]) * x.d <= x.n
    /\ x.n <= (IF a[1] <= b[1] THEN b[1] ELSE a[1]) * x.d
    /\ (IF a[2] <= b[2] THEN a[2] ELSE b[2]) * y.d <= y.n
    /\ y.n <= (IF a[2] <= b[2] THEN b[2] ELSE a[2]) * y.d

\* C9: for every progress in [0, 1] the point returned lies on a segment
\* between two consecutive waypoints, and the segment fraction used is
\* within [0, 1].
C9_OnPath ==
    result.called =>
        /\ ~result.raised
        /\ RLe(RInt(0), result.frac) /\ RLe(result.frac, RInt(1))
        /\ \E i \in 1..(Len(waypoints) - 1) :
              OnSegment(result.x, result.y, waypoints[i], waypoints[i + 1])
        /\ result.i # 0 =>
              OnSegment(result.x, result.y, waypoints[result.i],
                        waypoints[result.i + 1])

\* C9 witness: a point strictly inside a segment that is not the first.
C9_Witness ==
    /\ result.called
    /\ result.i >= 2
    /\ RLt(RInt(0), result.frac) /\ RLt(result.frac, RInt(1))

\* C10: a zero-length segment never makes interpolate_path divide by zero:
\* the fraction on it is 0, and a path whose waypoints all coincide yields
\* the common point for every progress.
C10_ZeroLengthSegment ==
    result.called =>
        /\ ~result.raised
        /\ (result.i # 0 /\ waypoints[result.i] = waypoints[result.i + 1]) =>
              REq(result.frac, RInt(0))
        /\ (\A i \in 1..Len(waypoints) : waypoints[i] = waypoints[1]) =>
              PointIs(result, waypoints[1])

\* C10 witness: a degenerate path asked for a progress strictly inside (0, 1).
C10_Witness ==
    /\ result.called
    /\ \A i \in 1..Len(waypoints) : waypoints[i] = waypoints[1]
    /\ RLt(RInt(0), progress) /\ RLt(progress, RInt(1))
    /\ result.i # 0

\* C11: with waypoints [(0,0),(10,0),(10,10)] and position cycle 4, the
\* position computed for tick 0 is (0,0), for tick 1 (5,0), for tick 2
\* exactly the waypoint (10,0), and for tick 4 (0,0) again.
C11_ConcreteScenario ==
    result.called =>
        /\ ~result.raised
        /\ at_tick = 0 => PointIs(result, <<0, 0>>)
        /\ at_tick = 1 => PointIs(result, <<5, 0>>)
        /\ at_tick = 2 => PointIs(result, <<10, 0>>)
        /\ at_tick = 4 => PointIs(result, <<0, 0>>)

\* C11 witness: the position of tick 4 has been computed, with the progress
\* wrapped to 0.
C11_Witness ==
    result.called /\ at_tick = 4 /\ REq(progress, RInt(0)) /\ result.i = 1


\* C12: a write on the RX characteristic, whatever its bytes (valid UTF-8 or
\* not), is handled by on_rx_write without an exception leaving the handler,
\* and changes neither the send_task handle, nor any generator's tick counter
\* or position, nor the TX characteristic value.
C12_RxWriteHarmless ==
    [][rx'.count # rx.count =>
          /\ ~rx'.raised
          /\ rx'.printed \in {"text", "binary"}
          /\ UNCHANGED <<send_task, message_counter, tx_value, pc,
                         cancel_requested, notified, published>>]_vars

\* a payload that is not UTF-8 was handled while a generator was running
C12_Witness ==
    /\ rx.count >= 1
    /\ rx.printed = "binary"
    /\ \E t \in Tasks : pc[t] = "sleep" /\ send_task = t


C14_AngleBounded ==
    /\ angle_of(0) = 0
    /\ \A t \in Tasks :
          /\ Abs(angle_of(message_counter[t])) <= Amplitude * SinScale
          /\ \A i \in 1..Len(notified[t]) :
                /\ Abs(notified[t][i].message.angle) <= 100 * Amplitude
                /\ notified[t][i].message.angle =
                      Round2(Rat(angle_of(notified[t][i].tick), SinScale))

\* C14 witness: in the second cycle of the oscillation the angle reaches the
\* amplitude, at a quarter of the period and with the opposite sign at three
\* quarters.
C14_Witness ==
    \E t \in Tasks :
        LET n == Len(notified[t])
        IN  /\ n = AnglePeriod + 30
            /\ notified[t][n].message.angle = -(100 * Amplitude)
            /\ notified[t][n - 20].message.angle = 100 * Amplitude


\* C15 as stated: a generator is suspended only in asyncio.sleep, never
\* between writing tx_char.value and the completion of the publish, and a
\* cancelled generator has published every sample it wrote.
C15_OnlySleepSuspends ==
    \A t \in Tasks :
        /\ pc[t] # "notify"
        /\ pc[t] = "cancelled" => published[t] = message_counter[t]

\* C15 amended: a generator is suspended in the await of notify_subscribers
\* (line 155) or in asyncio.sleep (line 157); every sample written to
\* tx_char.value was handed to notify_subscribers in the same step, so at most
\* the last sample written is one whose publish has not completed, and only
\* while the generator waits in notify_subscribers or after it ended there.
C15_WrittenSamplesHandedToPublish ==
    /\ \A t \in Tasks :
          /\ Len(notified[t]) = message_counter[t]
          /\ published[t] <= Len(notified[t])
          /\ Len(notified[t]) <= published[t] + 1
          /\ published[t] < Len(notified[t]) =>
                pc[t] \in {"notify", "failed", "cancelled"}
          /\ pc[t] = "sleep" => published[t] = Len(notified[t])
    /\ tx_writers # {} =>
          \E t \in tx_writers :
              /\ Len(notified[t]) >= 1
              /\ notified[t][Len(notified[t])].message = tx_value

\* C15 witness: a generator was cancelled while it waited in
\* notify_subscribers: the sample it wrote last was handed to publish and the
\* publish never completed.
C15_Witness ==
    \E t \in Tasks :
        /\ pc[t] = "cancelled"
        /\ ~notify_raised[t]
        /\ Len(notified[t]) = 2
        /\ published[t] = 1
        /\ tx_value = notified[t][2].message


\* C16: when target_distance equals the cumulative distance of an interior
\* waypoint j, the end of one segment and the start of the next,
\* interpolate_path takes the first segment whose closed interval holds
\* target_distance, which lies before segment j, and returns exactly
\* waypoint j.
C16_TieTakesEarlierSegment ==
    result.called =>
        LET ds == Distances(waypoints)
            target == RMulInt(progress, ds[Len(waypoints)])
        IN  \A j \in 2..(Len(waypoints) - 1) :
                REq(target, RInt(ds[j])) =>
                    /\ ~result.raised
                    /\ result.i # 0
                    /\ result.i < j
                    /\ RLe(RInt(ds[result.i]), target)
                    /\ RLe(target, RInt(ds[result.i + 1]))
                    /\ \A k \in 1..(result.i - 1) :
                          ~(RLe(RInt(ds[k]), target) /\ RLe(target, RInt(ds[k + 1])))
                    /\ PointIs(result, waypoints[j])

\* C16 witness: a tie between two segments of non-zero length, strictly
\* inside the path: the first segment was taken, at fraction 1.
C16_Witness ==
    /\ result.called
    /\ Len(waypoints) = 3
    /\ LET ds == Distances(waypoints)
       IN  /\ 0 < ds[2] /\ ds[2] < ds[3]
           /\ REq(RMulInt(progress, ds[3]), RInt(ds[2]))
    /\ result.i = 1
    /\ REq(result.frac, RInt(1))
    /\ PointIs(result, waypoints[2])


\* C17: on_disconnection is idempotent.  Whether one disconnection runs the
\* handler once or twice, the state left is that of one run: send_task is
\* None, the task the handle referred to (if it was not done) has a
\* cancellation requested by this connection, and no other task has; a second
\* run in succession changes nothing and makes no call of Task.cancel().
C17_DisconnectionIdempotent ==
    [][\A c \in Conns :
          (conn[c] = "connected" /\ conn'[c] = "disconnected") =>
              LET s0 == [send_task |-> send_task,
                         cancel_requested |-> cancel_requested,
                         cancelled_by |-> cancelled_by, cancel_calls |-> 0]
                  once == on_disconnection(s0, c)
                  twice == on_disconnection(once, c)
                  hit(t) == t = send_task /\ ~task_done(t)
              IN  /\ send_task' = None
                  /\ \A t \in Tasks :
                        /\ cancel_requested'[t] = (cancel_requested[t] \/ hit(t))
                        /\ cancelled_by'[t] =
                              IF hit(t) THEN cancelled_by[t] \cup {c}
                              ELSE cancelled_by[t]
                  /\ twice = once
                  /\ once.cancel_calls = (IF \E t \in Tasks : hit(t) THEN 1 ELSE 0)]_vars

\* C17 witness: a disconnection has cancelled the task the handle referred
\* to and left send_task None while the other generator, not referred to,
\* runs on with no cancellation requested.
C17_Witness ==
    \E c \in Conns, t, u \in Tasks :
        /\ conn[c] = "disconnected"
        /\ send_task = None
        /\ cancelled_by[t] = {c}
        /\ u # t
        /\ pc[u] = "sleep"
        /\ ~cancel_requested[u]


\* C18: for every tick of a running generator the progress handed to
\* interpolate_path is (tick mod 200) / 200, at least 0 and strictly below 1,
\* and interpolate_path finds a segment for it: the fallback return of line
\* 130 is not reached and nothing is raised.
C18_FallbackNeverReached ==
    \A t \in Tasks :
        \A k \in 1..Len(notified[t]) :
            LET tick == notified[t][k].tick
                pr == progress_of(tick)
                r == CodePath[pr]
            IN  /\ REq(pr, Rat(tick % CycleTicks, CycleTicks))
                /\ RLe(RInt(0), pr)
                /\ RLt(pr, RInt(1))
                /\ r.called
                /\ ~r.raised
                /\ r.i # 0
                /\ notified[t][k].message.x = Round2(r.x)
                /\ notified[t][k].message.y = Round2(r.y)

\* C18 witness: the generator has gone round the cycle twice: the tick just
\* published is 400, its progress is 0 again and the first segment matched;
\* the tick before it was matched by the last segment.
C18_Witness ==
    \E t \in Tasks :
        /\ Len(notified[t]) = 2 * CycleTicks
        /\ CodePath[progress_of(2 * CycleTicks)].i = 1
        /\ CodePath[progress_of(2 * CycleTicks - 1)].i = Len(CodeWaypoints) - 1
        /\ notified[t][2 * CycleTicks].message.x = 100 * CodeWaypoints[1][1]


\* C19: whatever six bytes are drawn, the address returned has the two most
\* significant bits of its first byte set (the byte is in 0xC0..0xFF), the
\* low six bits of the first byte are those drawn, and the other five bytes
\* are those drawn.
C19_StaticRandomAddress ==
    rand_addr # << >> =>
        /\ Len(rand_addr) = 6
        /\ AddressByte(rand_addr, 1) \div 64 = 3
        /\ AddressByte(rand_addr, 1) >= 192 /\ AddressByte(rand_addr, 1) <= 255
        /\ AddressByte(rand_addr, 1) % 64 = rand_bytes[1] % 64
        /\ \A i \in 2..6 : AddressByte(rand_addr, i) = rand_bytes[i]

\* C19 witness: a draw whose first byte has bit 6 set and bit 7 clear, and
\* some low bits set: 0x5A becomes 0xDA.
C19_Witness ==
    /\ rand_bytes[1] = 90
    /\ rand_bytes[2] = 165
    /\ rand_addr # << >>
    /\ rand_addr[1] = <<"D", "A">>
    /\ rand_addr[2] = <<"A", "5">>

=============================================================================
